---- MODULE Spec2Model ----
(***************************************************************************)
(* Model of hik-net-sdk: the HikDevice session wrapper (src/src/device.rs), *)
(* the HikDownload transfer wrapper, the channel resolver and the demo      *)
(* server's login handler (src/examples/web_server.rs).                     *)
(*                                                                         *)
(* The native SDK is the environment: every native call is recorded in the  *)
(* `last` record of the operation that issued it, with the value the SDK    *)
(* returned, and the SDK's own bookkeeping (which session and transfer      *)
(* handles are still open) is kept in open_sessions / open_transfers.       *)
(***************************************************************************)
EXTENDS Integers, Sequences, FiniteSets, TLC

\* ------------------------------------------------------------------ bounds
MaxDevices == 1         \* HikDevice objects a direct owner constructs
MaxHandles == 2         \* successful native logins
MaxDownloads == 1       \* HikDownload objects ever constructed
MaxStops == 2           \* explicit stop() calls on one HikDownload
MaxRequests == 2        \* requests the demo server serves at a time
MaxInitCallers == 3     \* threads that call init()
MaxInitCalls == 2       \* init() calls of one thread

DevIds == 1..MaxDevices
DlIds == 1..MaxDownloads
Handles == 0..(MaxHandles - 1)
Transfers == 0..(MaxDownloads - 1)

\* Option<T>: None is the empty sequence, Some(x) the one-element sequence.
None == <<>>
Some(x) == <<x>>
IsSome(o) == o # <<>>
Unwrap(o) == o[1]

\* ------------------------------------------------------- integer widths
U8 == 256
U16 == 65536

\* ------------------------------------------------------------- inputs
\* &str arguments are byte strings; the second one has an interior NUL.
CleanStr == <<49, 48>>
NulStr == <<49, 0, 48>>
Strings == {CleanStr, NulStr}
\* values NET_DVR_GetLastError may report
ErrCodes == {1, 7}
\* values a native BOOL call may return (TRUE = 1)
NativeBool == {0, 1}
\* bytes-returned values written by NET_DVR_GetDVRConfig
DwReturned == {0, 8}
\* values NET_DVR_GetDownloadPos may return
PosValues == {-2, -1, 0, 50, 100, 101, 200}

\* ----------------------------------------------------- results of calls
\* anyhow::Result<T>: Ok(v), Err(message, codes); a panic unwinds the caller.
Ok(v) == [kind |-> "ok", msg |-> "", codes |-> <<>>, val |-> v]
Err(m, cs) == [kind |-> "err", msg |-> m, codes |-> cs, val |-> <<>>]
Panic(m) == [kind |-> "panic", msg |-> m, codes |-> <<>>, val |-> <<>>]
Unit == <<>>

\* one native call: the function, its handle argument, the value returned
Call(f, a, r) == [fn |-> f, arg |-> a, res |-> r]

\* the record of one operation: which one, on which object, with what
\* arguments, the object before it, the native calls it made, its result
Last(op, obj, args, pre, o) ==
    [op |-> op, obj |-> obj, args |-> args, pre |-> pre,
     calls |-> o.calls, ret |-> o.ret]
NoArg == -1

\* as_c_string!: CString::new(s).unwrap() panics on an interior NUL byte
HasNul(s) == \E i \in 1..Len(s) : s[i] = 0
as_c_string(s) == IF HasNul(s) THEN Panic("NulError") ELSE Ok(s \o <<0>>)

\* ------------------------------------------------ device descriptors
Desc(n, s, lo, hi, sd) ==
    [byChanNum |-> n, byStartChan |-> s, byIPChanNum |-> lo,
     byHighDChanNum |-> hi, byStartDChan |-> sd]
\* what NET_DVR_Login_V30 may write into NET_DVR_DEVICEINFO_V30
BasicDescriptors ==
    { Desc(1, 1, 1, 0, 33),         \* one analog and one IP channel
      Desc(0, 1, 0, 0, 33) }        \* zero counts
Descriptors ==
    BasicDescriptors \cup
    { Desc(4, 1, 8, 0, 33),         \* the spec's scenario
      Desc(255, 1, 0, 0, 33),       \* 1 + 255 does not fit in u8
      Desc(1, 1, 2, 1, 33),         \* 2 + 1*256 IP channels
      Desc(0, 1, 255, 255, 1) }     \* 1 + 65535 does not fit in u16

\* ChannelInfo::new(index, chan_num)
ChannelInfoNew(variant, index, chan_num) ==
    [variant |-> variant, index |-> index, chan_num |-> chan_num,
     enable |-> FALSE, get_stream_type |-> None, stream_channel |-> None,
     ipv4_address |-> None, ipv6_address |-> None]

\* `for num in start..end { push(new(index, num)); index += 1 }`
RangeChannels(variant, start, end) ==
    [i \in 1..(IF end > start THEN end - start ELSE 0) |->
        ChannelInfoNew(variant, i - 1, start + i - 1)]

\* a + b in an unsigned type of the given modulus: with overflow checks the
\* addition panics, without them it wraps
AddOverflows(a, b, modulus) == a + b >= modulus
WrappingAdd(a, b, modulus) == (a + b) % modulus

\* HikDeviceInfo::get_channels; checks = the build's overflow-checks setting
HikDeviceInfo_get_channels(d, checks) ==
    LET byChanNum == d.byChanNum
        byStartChan == d.byStartChan
        maxIPChan == (d.byIPChanNum + ((d.byHighDChanNum * 256) % U16)) % U16
        byStartDChan == d.byStartDChan
        end1 == WrappingAdd(byStartChan, byChanNum, U8)
        end2 == WrappingAdd(byStartDChan, maxIPChan, U16)
    IN  IF checks /\ (AddOverflows(byStartChan, byChanNum, U8)
                      \/ AddOverflows(byStartDChan, maxIPChan, U16))
        THEN Panic("attempt to add with overflow")
        ELSE Ok(RangeChannels("Logic", byStartChan, end1)
                \o RangeChannels("IP", byStartDChan, end2))

\* ------------------------------------------- NET_DVR_IPPARACFG_V40 buffer
\* array lengths of the vendor structure the config query fills
CFG_SLOTS == 64         \* byAnalogChanEnable, struIPDevInfo, struStreamMode
IPV4_LEN == 16          \* struIP.sIpV4
IPV6_LEN == 128         \* struIP.byIPv6
REPLACEMENT == 65533    \* U+FFFD

\* a fixed-width byte field: the content followed by NUL padding
Padded(content, width) ==
    [i \in 1..width |-> IF i <= Len(content) THEN content[i] ELSE 0]

\* the buffer contents the device may report, one per kind k
IpBytes(i, k) ==
    IF (i + k) % 3 = 0 THEN <<>>                    \* unused slot
    ELSE IF (i + k) % 3 = 1 THEN <<49, 48, 46, 48 + (i % 10)>>
    ELSE <<49, 0, 255, 50>>                         \* inconsistent firmware data
ConfigOf(k) ==
    [byAnalogChanEnable |-> [i \in 1..CFG_SLOTS |-> (i + k) % 2],
     struIPDevInfo |-> [i \in 1..CFG_SLOTS |->
        [byEnable |-> (i + k + 1) % 2,
         sIpV4 |-> Padded(IpBytes(i, k), IPV4_LEN),
         byIPv6 |-> Padded(IpBytes(i + 1, k), IPV6_LEN)]],
     struStreamMode |-> [i \in 1..CFG_SLOTS |->
        [byGetStreamType |-> (i + k) % 3,
         \* the first byte of the union's storage, whatever member is active
         uGetStream |-> [byChannel |-> (7 * i + k) % U8]]]]

CfgKinds == {0, 1}
Config == [k \in CfgKinds |-> ConfigOf(k)]
NoConfig == <<>>

\* String::from_utf8_lossy on the samples above: ASCII bytes are kept, a
\* byte that cannot start a UTF-8 sequence becomes U+FFFD
from_utf8_lossy(bytes) ==
    [i \in 1..Len(bytes) |-> IF bytes[i] < 128 THEN bytes[i] ELSE REPLACEMENT]

\* str::trim_end_matches('\0'): everything up to the last non-NUL character
trim_end_nul(str) ==
    LET keep == {i \in 1..Len(str) : str[i] # 0}
        n == IF keep = {} THEN 0 ELSE CHOOSE i \in keep : \A j \in keep : j <= i
    IN  SubSeq(str, 1, n)

DecodeField(bytes) == trim_end_nul(from_utf8_lossy(bytes))

\* a join that reads the union's channel byte whatever the stream type
JoinChannel_reads_inactive_variant(ch, cfg) ==
    IF ch.variant = "Logic"
    THEN [ch EXCEPT !.enable = (cfg.byAnalogChanEnable[ch.index + 1] = 1)]
    ELSE LET ip_dev_info == cfg.struIPDevInfo[ch.index + 1]
             stream_mode == cfg.struStreamMode[ch.index + 1]
         IN  [ch EXCEPT
                !.enable = (ip_dev_info.byEnable = 1),
                !.ipv4_address = Some(DecodeField(ip_dev_info.sIpV4)),
                !.ipv6_address = Some(DecodeField(ip_dev_info.byIPv6)),
                !.get_stream_type = Some(stream_mode.byGetStreamType),
                !.stream_channel = Some(stream_mode.uGetStream.byChannel)]

\* the body of the `for channel in channels.iter_mut()` loop; Rust indexes
\* from 0, the sequences here from 1
JoinChannel(ch, cfg) ==
    IF ch.variant = "Logic"
    THEN [ch EXCEPT !.enable = (cfg.byAnalogChanEnable[ch.index + 1] = 1)]
    ELSE LET ip_dev_info == cfg.struIPDevInfo[ch.index + 1]
             stream_mode == cfg.struStreamMode[ch.index + 1]
             stream_type == stream_mode.byGetStreamType
         IN  [ch EXCEPT
                !.enable = (ip_dev_info.byEnable = 1),
                !.ipv4_address = Some(DecodeField(ip_dev_info.sIpV4)),
                !.ipv6_address = Some(DecodeField(ip_dev_info.byIPv6)),
                !.get_stream_type = Some(stream_type),
                !.stream_channel = IF stream_type = 0
                                   THEN Some(stream_mode.uGetStream.byChannel)
                                   ELSE None]

\* an index past the end of a fixed-size array panics
IndexOutOfBounds(ch) == ch.index >= CFG_SLOTS

\* HikDevice::get_channels after a successful config fetch
JoinChannels(device_info, cfg, checks) ==
    IF ~IsSome(device_info) THEN Err("Device info not found", <<>>)
    ELSE LET r == HikDeviceInfo_get_channels(Unwrap(device_info), checks)
         IN  IF r.kind = "panic" THEN r
             ELSE IF \E i \in 1..Len(r.val) : IndexOutOfBounds(r.val[i])
             THEN Panic("index out of bounds")
             ELSE Ok([i \in 1..Len(r.val) |-> JoinChannel(r.val[i], cfg)])

\* ------------------------------------------------------------ HikDevice
\* Each method is an operator from the object and the values the native
\* calls return to [self: the object afterwards, ret: the value returned,
\* calls: the native calls issued, in order].
Outcome(self, ret, calls) == [self |-> self, ret |-> ret, calls |-> calls]

\* HikDevice::new
HikDevice_new == [login_hanlder |-> None, device_info |-> None]

\* login that resets the device before it reports a failed native login
login_resets_on_failure(self, ip, username, password, res, info, code) ==
    IF as_c_string(ip).kind = "panic" THEN Outcome(self, as_c_string(ip), <<>>)
    ELSE IF as_c_string(username).kind = "panic"
    THEN Outcome(self, as_c_string(username), <<>>)
    ELSE IF as_c_string(password).kind = "panic"
    THEN Outcome(self, as_c_string(password), <<>>)
    ELSE IF res < 0
    THEN Outcome([self EXCEPT !.device_info = None, !.login_hanlder = None],
                 Err("Login failed: error code", <<code>>),
                 <<Call("NET_DVR_Login_V30", NoArg, res),
                   Call("NET_DVR_GetLastError", NoArg, code)>>)
    ELSE Outcome([self EXCEPT !.device_info = Some(info),
                              !.login_hanlder = Some(res)],
                 Ok(Unit), <<Call("NET_DVR_Login_V30", NoArg, res)>>)

\* HikDevice::login; res and info are what NET_DVR_Login_V30 returns and
\* writes, code what NET_DVR_GetLastError would return
login(self, ip, username, password, res, info, code) ==
    IF as_c_string(ip).kind = "panic" THEN Outcome(self, as_c_string(ip), <<>>)
    ELSE IF as_c_string(username).kind = "panic"
    THEN Outcome(self, as_c_string(username), <<>>)
    ELSE IF as_c_string(password).kind = "panic"
    THEN Outcome(self, as_c_string(password), <<>>)
    ELSE IF res < 0
    THEN Outcome(self, Err("Login failed: error code", <<code>>),
                 <<Call("NET_DVR_Login_V30", NoArg, res),
                   Call("NET_DVR_GetLastError", NoArg, code)>>)
    ELSE Outcome([self EXCEPT !.device_info = Some(info),
                              !.login_hanlder = Some(res)],
                 Ok(Unit), <<Call("NET_DVR_Login_V30", NoArg, res)>>)

\* logout that forgets `self.device_info = None`
logout_keeps_info(self, res) ==
    Outcome([self EXCEPT !.login_hanlder = None],
            Ok(Unit),
            IF IsSome(self.login_hanlder)
            THEN <<Call("NET_DVR_Logout_V30", Unwrap(self.login_hanlder), res)>>
            ELSE <<>>)

\* logout that reads the handle without take() and never clears it
logout_keeps_handle(self, res) ==
    Outcome([self EXCEPT !.device_info = None],
            Ok(Unit),
            IF IsSome(self.login_hanlder)
            THEN <<Call("NET_DVR_Logout_V30", Unwrap(self.login_hanlder), res)>>
            ELSE <<>>)

\* HikDevice::logout; res is the ignored result of NET_DVR_Logout_V30
logout(self, res) ==
    Outcome([self EXCEPT !.device_info = None, !.login_hanlder = None],
            Ok(Unit),
            IF IsSome(self.login_hanlder)
            THEN <<Call("NET_DVR_Logout_V30", Unwrap(self.login_hanlder), res)>>
            ELSE <<>>)

\* config query that hands back the buffer whatever the native result
get_ip_channel_config_ignores_result(self, res, dw_returned, cfg, code) ==
    IF ~IsSome(self.login_hanlder)
    THEN Outcome(self, Err("Login hanlder not found", <<>>), <<>>)
    ELSE Outcome(self, Ok(cfg),
                 <<Call("NET_DVR_GetDVRConfig", Unwrap(self.login_hanlder), res)>>)

\* HikDevice::get_ip_channel_config; res, dw_returned and cfg are what
\* NET_DVR_GetDVRConfig returns and writes
get_ip_channel_config(self, res, dw_returned, cfg, code) ==
    IF ~IsSome(self.login_hanlder)
    THEN Outcome(self, Err("Login hanlder not found", <<>>), <<>>)
    ELSE LET lu == Unwrap(self.login_hanlder)
         IN  IF res # 1
             THEN Outcome(self,
                    Err("Get IP channel config failed: error code, dwReturned",
                        <<code, dw_returned>>),
                    <<Call("NET_DVR_GetDVRConfig", lu, res),
                      Call("NET_DVR_GetLastError", NoArg, code)>>)
             ELSE Outcome(self, Ok(cfg), <<Call("NET_DVR_GetDVRConfig", lu, res)>>)

\* HikDevice::get_channels
get_channels(self, res, dw_returned, cfg, code, checks) ==
    LET channel_config == get_ip_channel_config(self, res, dw_returned, cfg, code)
    IN  IF channel_config.ret.kind # "ok" THEN channel_config
        ELSE Outcome(self,
                     JoinChannels(self.device_info, channel_config.ret.val, checks),
                     channel_config.calls)

\* capture that falls back to handle -1 instead of failing without a session
capture_jpeg_picture_unguarded(self, channel, file, res, code) ==
    IF as_c_string(file).kind = "panic"
    THEN Outcome(self, as_c_string(file), <<>>)
    ELSE LET lu == IF IsSome(self.login_hanlder)
                   THEN Unwrap(self.login_hanlder) ELSE -1
         IN  IF res # 1
             THEN Outcome(self,
                    Err("Capture JPEG picture failed: error code", <<code>>),
                    <<Call("NET_DVR_CaptureJPEGPicture", lu, res),
                      Call("NET_DVR_GetLastError", NoArg, code)>>)
             ELSE Outcome(self, Ok(Unit),
                    <<Call("NET_DVR_CaptureJPEGPicture", lu, res)>>)

\* HikDevice::capture_jpeg_picture
capture_jpeg_picture(self, channel, file, res, code) ==
    IF ~IsSome(self.login_hanlder)
    THEN Outcome(self, Err("Login hanlder not found", <<>>), <<>>)
    ELSE IF as_c_string(file).kind = "panic"
    THEN Outcome(self, as_c_string(file), <<>>)
    ELSE LET lu == Unwrap(self.login_hanlder)
         IN  IF res # 1
             THEN Outcome(self,
                    Err("Capture JPEG picture failed: error code", <<code>>),
                    <<Call("NET_DVR_CaptureJPEGPicture", lu, res),
                      Call("NET_DVR_GetLastError", NoArg, code)>>)
             ELSE Outcome(self, Ok(Unit),
                    <<Call("NET_DVR_CaptureJPEGPicture", lu, res)>>)

\* ---------------------------------------------------------- HikDownload
\* HikDownload::new
HikDownload_new(handle) == [handle |-> handle, is_start |-> FALSE, thread |-> None]

\* HikDevice::get_file_by_time; handle is what NET_DVR_GetFileByTime_V40
\* returns.  The two timestamps are copied field by field into the play
\* condition and take part in no decision, so they are not inputs here.
get_file_by_time(self, file, channel, handle, code) ==
    IF ~IsSome(self.login_hanlder)
    THEN Outcome(self, Err("Login hanlder not found", <<>>), <<>>)
    ELSE IF as_c_string(file).kind = "panic"
    THEN Outcome(self, as_c_string(file), <<>>)
    ELSE LET lu == Unwrap(self.login_hanlder)
         IN  IF handle < 0
             THEN Outcome(self,
                    Err("Get file by time failed: error code", <<code>>),
                    <<Call("NET_DVR_GetFileByTime_V40", lu, handle),
                      Call("NET_DVR_GetLastError", NoArg, code)>>)
             ELSE Outcome(self, Ok(HikDownload_new(handle)),
                    <<Call("NET_DVR_GetFileByTime_V40", lu, handle)>>)

\* start that stores the flag before it looks at the result
start_sets_flag_first(self, res, code) ==
    IF self.is_start THEN Outcome(self, Ok(Unit), <<>>)
    ELSE IF res # 1
    THEN Outcome([self EXCEPT !.is_start = TRUE],
                 Err("Start download failed: error code", <<code>>),
                 <<Call("NET_DVR_PlayBackControl_V40", self.handle, res),
                   Call("NET_DVR_GetLastError", NoArg, code)>>)
    ELSE Outcome([self EXCEPT !.is_start = TRUE], Ok(Unit),
                 <<Call("NET_DVR_PlayBackControl_V40", self.handle, res)>>)

\* HikDownload::start
start(self, res, code) ==
    IF self.is_start THEN Outcome(self, Ok(Unit), <<>>)
    ELSE IF res # 1
    THEN Outcome(self, Err("Start download failed: error code", <<code>>),
                 <<Call("NET_DVR_PlayBackControl_V40", self.handle, res),
                   Call("NET_DVR_GetLastError", NoArg, code)>>)
    ELSE Outcome([self EXCEPT !.is_start = TRUE], Ok(Unit),
                 <<Call("NET_DVR_PlayBackControl_V40", self.handle, res)>>)

\* get_progress without the is_start check
get_progress_unguarded(self, pos, code) ==
    IF pos < 0 \/ pos > 100
    THEN IF pos = -1
         THEN Outcome(self,
                Err("Get download progress failed: error code", <<code>>),
                <<Call("NET_DVR_GetDownloadPos", self.handle, pos),
                  Call("NET_DVR_GetLastError", NoArg, code)>>)
         ELSE IF pos = 200
         THEN Outcome(self, Err("Get download network error", <<>>),
                <<Call("NET_DVR_GetDownloadPos", self.handle, pos)>>)
         ELSE Outcome(self, Err("Get download progress failed", <<>>),
                <<Call("NET_DVR_GetDownloadPos", self.handle, pos)>>)
    ELSE Outcome(self, Ok(pos), <<Call("NET_DVR_GetDownloadPos", self.handle, pos)>>)

\* get_progress whose range test is `pos < 0` only
get_progress_no_upper(self, pos, code) ==
    IF ~self.is_start THEN Outcome(self, Err("Download not started", <<>>), <<>>)
    ELSE IF pos < 0
    THEN IF pos = -1
         THEN Outcome(self,
                Err("Get download progress failed: error code", <<code>>),
                <<Call("NET_DVR_GetDownloadPos", self.handle, pos),
                  Call("NET_DVR_GetLastError", NoArg, code)>>)
         ELSE Outcome(self, Err("Get download progress failed", <<>>),
                <<Call("NET_DVR_GetDownloadPos", self.handle, pos)>>)
    ELSE Outcome(self, Ok(pos), <<Call("NET_DVR_GetDownloadPos", self.handle, pos)>>)

\* get_progress that marks the download as over once the device reports
\* completion or an error value
get_progress_clears_when_done(self, pos, code) ==
    IF ~self.is_start THEN Outcome(self, Err("Download not started", <<>>), <<>>)
    ELSE IF pos < 0 \/ pos > 100
    THEN IF pos = -1
         THEN Outcome([self EXCEPT !.is_start = FALSE],
                Err("Get download progress failed: error code", <<code>>),
                <<Call("NET_DVR_GetDownloadPos", self.handle, pos),
                  Call("NET_DVR_GetLastError", NoArg, code)>>)
         ELSE IF pos = 200
         THEN Outcome([self EXCEPT !.is_start = FALSE],
                Err("Get download network error", <<>>),
                <<Call("NET_DVR_GetDownloadPos", self.handle, pos)>>)
         ELSE Outcome([self EXCEPT !.is_start = FALSE],
                Err("Get download progress failed", <<>>),
                <<Call("NET_DVR_GetDownloadPos", self.handle, pos)>>)
    ELSE Outcome([self EXCEPT !.is_start = (pos < 100)], Ok(pos),
                 <<Call("NET_DVR_GetDownloadPos", self.handle, pos)>>)

\* HikDownload::get_progress; pos is what NET_DVR_GetDownloadPos returns
get_progress(self, pos, code) ==
    IF ~self.is_start THEN Outcome(self, Err("Download not started", <<>>), <<>>)
    ELSE IF pos < 0 \/ pos > 100
    THEN IF pos = -1
         THEN Outcome(self,
                Err("Get download progress failed: error code", <<code>>),
                <<Call("NET_DVR_GetDownloadPos", self.handle, pos),
                  Call("NET_DVR_GetLastError", NoArg, code)>>)
         ELSE IF pos = 200
         THEN Outcome(self, Err("Get download network error", <<>>),
                <<Call("NET_DVR_GetDownloadPos", self.handle, pos)>>)
         ELSE Outcome(self, Err("Get download progress failed", <<>>),
                <<Call("NET_DVR_GetDownloadPos", self.handle, pos)>>)
    ELSE Outcome(self, Ok(pos), <<Call("NET_DVR_GetDownloadPos", self.handle, pos)>>)

\* stop that reports the result of the failed call instead of asking for
\* the last error code
stop_reports_result(self, res, code) ==
    LET cleared == [self EXCEPT !.is_start = FALSE]
    IN  IF res # 1
        THEN Outcome(cleared, Err("Stop download failed: error code", <<res>>),
                     <<Call("NET_DVR_StopGetFile", self.handle, res)>>)
        ELSE Outcome(cleared, Ok(Unit),
                     <<Call("NET_DVR_StopGetFile", self.handle, res)>>)

\* stop that clears the flag only after a successful native stop
stop_clears_on_success(self, res, code) ==
    IF res # 1
    THEN Outcome(self, Err("Stop download failed: error code", <<code>>),
                 <<Call("NET_DVR_StopGetFile", self.handle, res),
                   Call("NET_DVR_GetLastError", NoArg, code)>>)
    ELSE Outcome([self EXCEPT !.is_start = FALSE], Ok(Unit),
                 <<Call("NET_DVR_StopGetFile", self.handle, res)>>)

\* HikDownload::stop
stop(self, res, code) ==
    LET cleared == [self EXCEPT !.is_start = FALSE]
    IN  IF res # 1
        THEN Outcome(cleared, Err("Stop download failed: error code", <<code>>),
                     <<Call("NET_DVR_StopGetFile", self.handle, res),
                       Call("NET_DVR_GetLastError", NoArg, code)>>)
        ELSE Outcome(cleared, Ok(Unit),
                     <<Call("NET_DVR_StopGetFile", self.handle, res)>>)

\* teardown that only detaches the thread
HikDownload_drop_without_stop(self, res, code) ==
    Outcome([self EXCEPT !.thread = None], Ok(Unit), <<>>)

\* Drop for HikDownload: `let _ = self.stop();` then join the thread if one
\* is attached.  ret is the swallowed result of stop.
HikDownload_drop(self, res, code) ==
    LET stopped == stop(self, res, code)
    IN  Outcome([stopped.self EXCEPT !.thread = None], stopped.ret, stopped.calls)

\* ---------------------------------------------------------- common.rs
\* the closure handed to INIT_ONCE.get_or_init: Err(res) unless NET_DVR_Init
\* returned 1.  val is the Result<(), i32> the cell receives.
init_closure(res) ==
    [val |-> IF res # 1 THEN [kind |-> "err", code |-> res]
                        ELSE [kind |-> "ok", code |-> 0],
     calls |-> <<Call("NET_DVR_Init", NoArg, res)>>]

\* init() after get_or_init: the stored result becomes the anyhow result
init_result(stored) ==
    IF stored.kind = "ok" THEN Ok(Unit)
    ELSE Err("Init failed: error code", <<stored.code>>)

\* a cell that lets the closure run again after a stored failure
runs_closure_after_failure(cell) == ~IsSome(cell) \/ Unwrap(cell).kind = "err"

\* OnceLock::get_or_init runs its closure only on an empty cell
runs_closure(cell) == ~IsSome(cell)

\* -------------------------------------------------- the demo server
\* devices.get(session_id).ok_or_else(..) of the three session handlers
lookup(devices, session_id) ==
    IF IsSome(devices[session_id])
    THEN Ok(Unwrap(devices[session_id]))
    ELSE Err("Device not found. Please login first.", <<>>)

\* download_recording between the lookup and the native call: both
\* timestamps are parsed and resolved in the local zone, start first
TimeInputs == {"valid", "bad_start", "bad_end"}
parse_times(input) ==
    CASE input = "bad_start" -> Err("Invalid start_time", <<>>)
      [] input = "bad_end" -> Err("Invalid end_time", <<>>)
      [] OTHER -> Ok(Unit)

\* capture_image from the native capture on: the handler answers with the
\* image url only if the file exists afterwards
capture_image(device, channel, file, res, code, exists) ==
    LET captured == capture_jpeg_picture(device, channel, file, res, code)
    IN  IF captured.ret.kind # "ok" THEN captured
        ELSE IF ~exists
        THEN Outcome(device, Err("Image file not found after capture", <<>>),
                     captured.calls)
        ELSE Outcome(device, Ok(Unit), captured.calls)

\* download_recording from get_file_by_time to the spawn.  `?` on a failed
\* open returns before a HikDownload exists; `?` on a failed start drops the
\* HikDownload (sres, scode: start; dres, dcode: the stop inside Drop);
\* otherwise the HikDownload moves into the spawned task.  download is the
\* HikDownload the task receives, dropped the one the handler discarded.
download_recording(device, file, channel, handle, code, sres, scode, dres, dcode) ==
    LET opened == get_file_by_time(device, file, channel, handle, code)
    IN  IF opened.ret.kind # "ok"
        THEN [ret |-> opened.ret, calls |-> opened.calls,
              download |-> None, dropped |-> None]
        ELSE LET started == start(opened.ret.val, sres, scode)
                 gone == HikDownload_drop(started.self, dres, dcode)
             IN  IF started.ret.kind # "ok"
                 THEN [ret |-> started.ret,
                       calls |-> opened.calls \o started.calls \o gone.calls,
                       download |-> None, dropped |-> Some(gone.self)]
                 ELSE [ret |-> Ok(Unit),
                       calls |-> opened.calls \o started.calls,
                       download |-> Some(started.self), dropped |-> None]

\* the monitor loop of download_recording sleeps and polls again
monitor_continues_on_error(ret) == ret.kind = "err" \/ ret.val < 100

\* the monitor loop of download_recording never breaks
monitor_never_breaks(ret) == TRUE

\* the spawned loop of download_recording: `break` on Ok(progress >= 100)
\* and on Err, else sleep 500 ms and poll again
monitor_continues(ret) == ret.kind = "ok" /\ ret.val < 100

\* Mutex::lock returns once no other guard is alive
lock_ignores_holder(m) == TRUE

lock_available(m) == ~IsSome(m)

\* ---------------------------------------------------------------- state
VARIABLES
    dev,                \* DevIds -> HikDevice object held by a direct owner
    registry,           \* AppState.devices: session id -> Option<HikDevice>
    dl,                 \* DlIds -> HikDownload object
    open_sessions,      \* SDK: login handles not yet passed to native logout
    logout_count,       \* SDK: native logouts received per login handle
    next_handle,        \* SDK: next login handle to hand out
    open_transfers,     \* SDK: transfer handles not yet passed to stop
    stop_count,         \* SDK: native stops received per transfer handle
    next_transfer,      \* SDK: next transfer handle to hand out
    logged_in,          \* history: Some(descriptor written by the most recent
                        \* successful login) until the next logout call
    last,               \* the operation just performed, its calls and result
    poll,               \* DlIds -> Option<bool>: the is_start value a second
                        \* holder of &HikDownload has loaded in get_progress
    mutex,              \* AppState.devices' Mutex: Option<request holding it>
    req,                \* ReqIds -> the handler serving the request
    INIT_ONCE,          \* common.rs: OnceLock<Result<(), i32>>
    init_caller,        \* InitCallers -> a thread's position in init()
    init_count          \* SDK: NET_DVR_Init calls received

vars == <<dev, registry, dl, open_sessions, logout_count,
          next_handle, open_transfers, stop_count, next_transfer,
          logged_in, last, poll, mutex, req, INIT_ONCE, init_caller,
          init_count>>

ReqIds == 1..MaxRequests
InitCallers == 1..MaxInitCallers

Ports == {8000}
\* format!("{}_{}", host, port): the port is decimal digits, so the text
\* determines the pair (host, port) and the pair stands for the text
SessionId(host, port) == <<host, port>>
SessionIds == {SessionId(h, p) : h \in Strings, p \in Ports}
Channels == {33}
\* overflow-checks of the build: on in the dev profile, off in release
BuildProfiles == BOOLEAN

\* the SDK's bookkeeping after the calls of one operation
Times(calls, f, a) ==
    Cardinality({i \in 1..Len(calls) : calls[i].fn = f /\ calls[i].arg = a})
Returned(calls, f) ==
    {calls[i].res : i \in {j \in 1..Len(calls) : calls[j].fn = f /\ calls[j].res >= 0}}
PassedTo(calls, f) ==
    {calls[i].arg : i \in {j \in 1..Len(calls) : calls[j].fn = f}}
Native(calls) ==
    /\ open_sessions' = (open_sessions \cup Returned(calls, "NET_DVR_Login_V30"))
                            \ PassedTo(calls, "NET_DVR_Logout_V30")
    /\ logout_count' = [h \in Handles |->
                            logout_count[h] + Times(calls, "NET_DVR_Logout_V30", h)]
    /\ next_handle' = next_handle
                        + Cardinality(Returned(calls, "NET_DVR_Login_V30"))
    /\ open_transfers' = (open_transfers
                            \cup Returned(calls, "NET_DVR_GetFileByTime_V40"))
                            \ PassedTo(calls, "NET_DVR_StopGetFile")
    /\ stop_count' = [t \in Transfers |->
                            stop_count[t] + Times(calls, "NET_DVR_StopGetFile", t)]
    /\ next_transfer' = next_transfer
                        + Cardinality(Returned(calls, "NET_DVR_GetFileByTime_V40"))

\* what NET_DVR_Login_V30 / NET_DVR_GetFileByTime_V40 may return
LoginResults == {-1} \cup (IF next_handle < MaxHandles THEN {next_handle} ELSE {})
TransferResults ==
    {-1} \cup (IF next_transfer < MaxDownloads THEN {next_transfer} ELSE {})

\* The SDK is asked for a value only by an operation that issues the call:
\* the result of a call that is not made is not drawn.
Issues(o, f) == \E i \in 1..Len(o.calls) : o.calls[i].fn = f
IfIssues(o, f, values, unused) == IF Issues(o, f) THEN values ELSE {unused}
ErrCodesIf(o) == IfIssues(o, "NET_DVR_GetLastError", ErrCodes, 0)

Unborn(objs, ids) == {i \in ids : objs[i].status = "unborn"}
\* objects are constructed in the order of their ids
Fresh(objs, ids, i) == i \in Unborn(objs, ids) /\ \A j \in Unborn(objs, ids) : i <= j

NoDevice == [status |-> "unborn", login_hanlder |-> None, device_info |-> None]
NoDownload == [status |-> "unborn", handle |-> -1, is_start |-> FALSE,
               thread |-> None, session |-> -1]
\* a request no handler is serving; a thread outside init()
NoRequest == [pc |-> "idle", kind |-> "none", session_id |-> <<>>,
              in_flight |-> None]
\* the handlers that use a registered HikDevice
Handlers == {"get_channels", "capture_image", "download_recording"}
NoInit == [pc |-> "idle", calls |-> 0, ret |-> None]

Init ==
    /\ dev = [d \in DevIds |-> NoDevice]
    /\ registry = [k \in SessionIds |-> None]
    /\ dl = [x \in DlIds |-> NoDownload]
    /\ open_sessions = {}
    /\ logout_count = [h \in Handles |-> 0]
    /\ next_handle = 0
    /\ open_transfers = {}
    /\ stop_count = [t \in Transfers |-> 0]
    /\ next_transfer = 0
    /\ logged_in = [d \in DevIds |-> None]
    /\ last = [op |-> "init", obj |-> 0, args |-> <<>>, pre |-> None,
               calls |-> <<>>, ret |-> Ok(Unit)]
    /\ poll = [x \in DlIds |-> None]
    /\ mutex = None
    /\ req = [r \in ReqIds |-> NoRequest]
    /\ INIT_ONCE = None
    /\ init_caller = [t \in InitCallers |-> NoInit]
    /\ init_count = 0

\* history of one device after a login call
AfterLogin(d, o, info) ==
    logged_in' = [logged_in EXCEPT
                    ![d] = IF o.ret.kind = "ok" THEN Some(info) ELSE @]

\* ---------------------------------------------- a direct owner's actions
New(d) ==
    /\ Fresh(dev, DevIds, d)
    /\ dev' = [dev EXCEPT ![d] = [status |-> "owned"] @@ HikDevice_new]
    /\ last' = Last("new", d, <<>>, dev[d], Outcome(dev[d], Ok(Unit), <<>>))
    /\ UNCHANGED <<poll, mutex, req, INIT_ONCE, init_caller, init_count,
                   registry, dl, open_sessions, logout_count,
                   next_handle, open_transfers, stop_count, next_transfer,
                   logged_in>>

LoginFrom(d, descriptors) ==
    /\ dev[d].status = "owned"
    /\ \E ip \in Strings, username \in Strings, password \in Strings :
       \E info \in IfIssues(login(dev[d], ip, username, password, 0,
                                  CHOOSE i \in descriptors : TRUE, 0),
                            "NET_DVR_Login_V30", descriptors,
                            CHOOSE i \in descriptors : TRUE) :
       \E res \in IfIssues(login(dev[d], ip, username, password, -1, info, 0),
                           "NET_DVR_Login_V30", LoginResults, -1) :
       \E code \in ErrCodesIf(login(dev[d], ip, username, password, res, info, 0)) :
        LET o == login(dev[d], ip, username, password, res, info, code)
        IN  /\ dev' = [dev EXCEPT ![d] = o.self]
            /\ Native(o.calls)
            /\ AfterLogin(d, o, info)
            /\ last' = Last("login", d, <<ip, username, password>>, dev[d], o)
    /\ UNCHANGED <<poll, mutex, req, INIT_ONCE, init_caller, init_count,
                   registry, dl>>

\* login to one of the ordinary appliances / to any appliance
Login(d) == LoginFrom(d, BasicDescriptors)
LoginAny(d) == LoginFrom(d, Descriptors)

Logout(d) ==
    /\ dev[d].status = "owned"
    /\ \E res \in IfIssues(logout(dev[d], 1), "NET_DVR_Logout_V30", NativeBool, 1) :
        LET o == logout(dev[d], res)
        IN  /\ dev' = [dev EXCEPT ![d] = o.self]
            /\ Native(o.calls)
            /\ last' = Last("logout", d, <<>>, dev[d], o)
    /\ logged_in' = [logged_in EXCEPT ![d] = None]
    /\ UNCHANGED <<poll, mutex, req, INIT_ONCE, init_caller, init_count,
                   registry, dl>>

GetChannels(d) ==
    /\ dev[d].status = "owned"
    /\ \E res \in IfIssues(get_ip_channel_config(dev[d], 1, 0, NoConfig, 0),
                           "NET_DVR_GetDVRConfig", NativeBool, 1) :
       \E code \in ErrCodesIf(get_ip_channel_config(dev[d], res, 0, NoConfig, 0)) :
       \E dw \in IF code = 0 THEN {0} ELSE DwReturned :
       \E k \in CfgKinds, checks \in BuildProfiles :
        LET fetched == get_ip_channel_config(dev[d], res, dw, NoConfig, code)
            o == get_channels(dev[d], res, dw, Config[k], code, checks)
        IN  /\ fetched.ret.kind # "ok" => (k = 0 /\ checks)
            /\ Native(o.calls)
            /\ last' = Last("get_channels", d,
                            IF fetched.ret.kind = "ok" THEN <<k, checks>> ELSE <<dw>>,
                            dev[d], o)
    /\ UNCHANGED <<poll, mutex, req, INIT_ONCE, init_caller, init_count,
                   dev, registry, dl, logged_in>>

Capture(d) ==
    /\ dev[d].status = "owned"
    /\ \E channel \in Channels, file \in Strings :
       \E res \in IfIssues(capture_jpeg_picture(dev[d], channel, file, 1, 0),
                           "NET_DVR_CaptureJPEGPicture", NativeBool, 1) :
       \E code \in ErrCodesIf(capture_jpeg_picture(dev[d], channel, file, res, 0)) :
        LET o == capture_jpeg_picture(dev[d], channel, file, res, code)
        IN  /\ Native(o.calls)
            /\ last' = Last("capture_jpeg_picture", d, <<channel, file>>, dev[d], o)
    /\ UNCHANGED <<poll, mutex, req, INIT_ONCE, init_caller, init_count,
                   dev, registry, dl, logged_in>>

GetFileByTime(d) ==
    /\ dev[d].status = "owned"
    /\ \E channel \in Channels, file \in Strings, x \in DlIds :
       \E handle \in IfIssues(get_file_by_time(dev[d], file, channel, -1, 0),
                              "NET_DVR_GetFileByTime_V40", TransferResults, -1) :
       \E code \in ErrCodesIf(get_file_by_time(dev[d], file, channel, handle, 0)) :
        LET o == get_file_by_time(dev[d], file, channel, handle, code)
        IN  /\ IF o.ret.kind = "ok"
               THEN /\ Fresh(dl, DlIds, x)
                    /\ dl' = [dl EXCEPT ![x] =
                                [status |-> "live",
                                 session |-> Unwrap(dev[d].login_hanlder)]
                                @@ o.ret.val]
               ELSE /\ x = 1
                    /\ dl' = dl
            /\ Native(o.calls)
            /\ last' = Last("get_file_by_time", d, <<channel, file>>, dev[d], o)
    /\ UNCHANGED <<poll, mutex, req, INIT_ONCE, init_caller, init_count,
                   dev, registry, logged_in>>

\* the owner lets the HikDevice go out of scope; HikDevice has no Drop impl,
\* so nothing runs
DropDevice(d) ==
    /\ dev[d].status = "owned"
    /\ dev' = [dev EXCEPT ![d].status = "dropped"]
    /\ last' = Last("drop_device", d, <<>>, dev[d], Outcome(dev[d], Ok(Unit), <<>>))
    /\ UNCHANGED <<poll, mutex, req, INIT_ONCE, init_caller, init_count,
                   registry, dl, open_sessions, logout_count,
                   next_handle, open_transfers, stop_count, next_transfer,
                   logged_in>>

\* ------------------------------------------- the owner of a HikDownload
\* start takes &mut self and drop takes the value: the borrow checker admits
\* neither while another holder of &HikDownload is inside get_progress
Start(x) ==
    /\ dl[x].status = "live"
    /\ poll[x] = None
    /\ \E res \in IfIssues(start(dl[x], 1, 0),
                           "NET_DVR_PlayBackControl_V40", NativeBool, 1) :
       \E code \in ErrCodesIf(start(dl[x], res, 0)) :
        LET o == start(dl[x], res, code)
        IN  /\ dl' = [dl EXCEPT ![x] = o.self]
            /\ Native(o.calls)
            /\ last' = Last("start", x, <<>>, dl[x], o)
    /\ UNCHANGED <<poll, mutex, req, INIT_ONCE, init_caller, init_count,
                   dev, registry, logged_in>>

GetProgress(x) ==
    /\ dl[x].status = "live"
    /\ \E pos \in IfIssues(get_progress(dl[x], 0, 0),
                           "NET_DVR_GetDownloadPos", PosValues, 0) :
       \E code \in ErrCodesIf(get_progress(dl[x], pos, 0)) :
        LET o == get_progress(dl[x], pos, code)
        IN  /\ dl' = [dl EXCEPT ![x] = o.self]
            /\ Native(o.calls)
            /\ last' = Last("get_progress", x, <<>>, dl[x], o)
    /\ UNCHANGED <<poll, mutex, req, INIT_ONCE, init_caller, init_count,
                   dev, registry, logged_in>>

Stop(x) ==
    /\ dl[x].status = "live"
    /\ stop_count[dl[x].handle] < MaxStops
    /\ \E res \in NativeBool :
       \E code \in ErrCodesIf(stop(dl[x], res, 0)) :
        LET o == stop(dl[x], res, code)
        IN  /\ dl' = [dl EXCEPT ![x] = o.self]
            /\ Native(o.calls)
            /\ last' = Last("stop", x, <<>>, dl[x], o)
    /\ UNCHANGED <<poll, mutex, req, INIT_ONCE, init_caller, init_count,
                   dev, registry, logged_in>>

DropDownload(x) ==
    /\ dl[x].status = "live"
    /\ poll[x] = None
    /\ \E res \in NativeBool :
       \E code \in ErrCodesIf(HikDownload_drop(dl[x], res, 0)) :
        LET o == HikDownload_drop(dl[x], res, code)
        IN  /\ dl' = [dl EXCEPT ![x] = [o.self EXCEPT !.status = "dropped"]]
            /\ Native(o.calls)
            /\ last' = Last("drop_download", x, <<>>, dl[x], o)
    /\ UNCHANGED <<poll, mutex, req, INIT_ONCE, init_caller, init_count,
                   dev, registry, logged_in>>

\* ---------------------------- a second thread that holds &HikDownload
\* get_progress and stop take &self and HikDownload is Sync, so a poller may
\* run get_progress while the owner runs stop.  get_progress loads is_start
\* (Relaxed) and makes the native query later: the two are separate steps.
\* A load of false ends the call at once.
PollCheck(x) ==
    /\ dl[x].status = "live"
    /\ poll[x] = None
    /\ IF dl[x].is_start
       THEN /\ poll' = [poll EXCEPT ![x] = Some(TRUE)]
            /\ last' = Last("load_is_start", x, <<>>, dl[x],
                            Outcome(dl[x], Ok(Unit), <<>>))
       ELSE /\ poll' = poll
            /\ last' = Last("get_progress", x, <<>>, dl[x],
                            get_progress(dl[x], 0, 0))
    /\ UNCHANGED <<dev, registry, dl, open_sessions, logout_count,
                   next_handle, open_transfers, stop_count, next_transfer,
                   logged_in, mutex, req, INIT_ONCE, init_caller, init_count>>

\* the rest of get_progress for the poller that loaded true
PollQuery(x) ==
    /\ dl[x].status = "live"
    /\ poll[x] = Some(TRUE)
    /\ \E pos \in PosValues :
       \E code \in ErrCodesIf(get_progress([dl[x] EXCEPT !.is_start = TRUE], pos, 0)) :
        LET o == get_progress([dl[x] EXCEPT !.is_start = TRUE], pos, code)
        IN  /\ Native(o.calls)
            /\ last' = Last("get_progress", x, <<>>, dl[x], o)
    /\ poll' = [poll EXCEPT ![x] = None]
    /\ UNCHANGED <<dev, registry, dl, logged_in, mutex, req, INIT_ONCE,
                   init_caller, init_count>>

\* ------------------------------------------------ threads calling init()
\* get_or_init lets one thread run the closure; a thread that arrives
\* meanwhile blocks until that one is finished
Initializing == \E t \in InitCallers : init_caller[t].pc = "running"

InitEnter(t) ==
    /\ init_caller[t].pc = "idle"
    /\ init_caller[t].calls < MaxInitCalls
    /\ init_caller' = [init_caller EXCEPT ![t] =
            IF ~runs_closure(INIT_ONCE)
            THEN [pc |-> "idle", calls |-> @.calls + 1,
                  ret |-> Some(init_result(Unwrap(INIT_ONCE)))]
            ELSE [pc |-> IF Initializing THEN "waiting" ELSE "running",
                  calls |-> @.calls + 1, ret |-> None]]
    /\ UNCHANGED <<dev, registry, dl, open_sessions, logout_count,
                   next_handle, open_transfers, stop_count, next_transfer,
                   logged_in, last, poll, mutex, req, INIT_ONCE, init_count>>

\* the closure runs: NET_DVR_Init is called, the cell is filled, init returns
InitRun(t) ==
    /\ init_caller[t].pc = "running"
    /\ \E res \in NativeBool :
        LET o == init_closure(res)
        IN  /\ INIT_ONCE' = Some(o.val)
            /\ init_count' = init_count + Len(o.calls)
            /\ init_caller' = [init_caller EXCEPT ![t].pc = "idle",
                                    ![t].ret = Some(init_result(o.val))]
    /\ UNCHANGED <<dev, registry, dl, open_sessions, logout_count,
                   next_handle, open_transfers, stop_count, next_transfer,
                   logged_in, last, poll, mutex, req>>

\* a blocked thread is released once no closure is running
InitWake(t) ==
    /\ init_caller[t].pc = "waiting"
    /\ ~Initializing
    /\ init_caller' = [init_caller EXCEPT ![t] =
            IF ~runs_closure(INIT_ONCE)
            THEN [@ EXCEPT !.pc = "idle",
                           !.ret = Some(init_result(Unwrap(INIT_ONCE)))]
            ELSE [@ EXCEPT !.pc = "running"]]
    /\ UNCHANGED <<dev, registry, dl, open_sessions, logout_count,
                   next_handle, open_transfers, stop_count, next_transfer,
                   logged_in, last, poll, mutex, req, INIT_ONCE, init_count>>

\* ------------------------------------------ the demo server's handlers
\* `login`: a new HikDevice is logged in and inserted under host_port.
\* HashMap::insert hands back the device it replaces and the handler
\* discards it; a device whose login failed is discarded by `?`.  HikDevice
\* has no Drop impl, so discarding a device runs nothing.
WebLogin ==
    /\ lock_available(mutex)
    /\ \E host \in Strings, port \in Ports, username \in Strings,
          password \in Strings :
       \E info \in IfIssues(login(HikDevice_new, host, username, password, 0,
                                  CHOOSE i \in BasicDescriptors : TRUE, 0),
                            "NET_DVR_Login_V30", BasicDescriptors,
                            CHOOSE i \in BasicDescriptors : TRUE) :
       \E res \in IfIssues(login(HikDevice_new, host, username, password, -1, info, 0),
                           "NET_DVR_Login_V30", LoginResults, -1) :
       \E code \in ErrCodesIf(login(HikDevice_new, host, username, password,
                                    res, info, 0)) :
        LET device == login(HikDevice_new, host, username, password, res, info, code)
            session_id == SessionId(host, port)
        IN  /\ registry' = IF device.ret.kind = "ok"
                           THEN [registry EXCEPT ![session_id] = Some(device.self)]
                           ELSE registry
            /\ Native(device.calls)
            /\ last' = Last("web_login", 0, <<host, username, password>>,
                            registry[session_id], device)
    /\ UNCHANGED <<poll, mutex, req, INIT_ONCE, init_caller, init_count,
                   dev, dl, logged_in>>

\* get_channels, capture_image, download_recording: `devices` is the guard
\* of state.devices.lock().unwrap() and lives to the end of the handler.
\* (A missing session_id parameter returns before the lock is asked for.)
WebLockFor(r, kinds) ==
    /\ req[r].pc = "idle"
    /\ lock_available(mutex)
    /\ \E kind \in kinds, session_id \in SessionIds :
        /\ req' = [req EXCEPT ![r] = [pc |-> "locked", kind |-> kind,
                                      session_id |-> session_id,
                                      in_flight |-> None]]
        /\ last' = Last("lock", r, <<kind, session_id>>, mutex,
                        Outcome(mutex, Ok(Unit), <<>>))
    /\ mutex' = Some(r)
    /\ UNCHANGED <<dev, registry, dl, open_sessions, logout_count,
                   next_handle, open_transfers, stop_count, next_transfer,
                   logged_in, poll, INIT_ONCE, init_caller, init_count>>

\* a request for any of the three handlers / for a download
WebLock(r) == WebLockFor(r, Handlers)
WebLockDownload(r) == WebLockFor(r, {"download_recording"})

\* the native call a handler makes first on the session of `device`
FirstCall(kind, device) ==
    CASE kind = "get_channels" ->
            get_channels(device, 1, 0, Config[0], 0, TRUE).calls[1]
      [] kind = "capture_image" ->
            capture_jpeg_picture(device, 33, CleanStr, 1, 0).calls[1]
      [] kind = "download_recording" ->
            get_file_by_time(device, CleanStr, 33, 0, 0).calls[1]

\* from the lookup to the native call: an early return drops the guard,
\* otherwise the handler is inside the SDK with the guard alive
WebLookup(r) ==
    /\ req[r].pc = "locked"
    /\ \E input \in IF req[r].kind = "download_recording"
                     THEN TimeInputs ELSE {"valid"} :
        LET found == lookup(registry, req[r].session_id)
            checked == IF found.kind = "ok" THEN parse_times(input) ELSE found
        IN  IF checked.kind = "ok"
            THEN /\ req' = [req EXCEPT ![r].pc = "calling",
                                ![r].in_flight =
                                    Some(<<FirstCall(req[r].kind, found.val).fn,
                                           FirstCall(req[r].kind, found.val).arg>>)]
                 /\ mutex' = mutex
                 /\ last' = Last("enter_sdk", r, <<req[r].kind, req[r].session_id>>,
                                 found.val, Outcome(found.val, Ok(Unit), <<>>))
            ELSE /\ req' = [req EXCEPT ![r] = NoRequest]
                 /\ mutex' = None
                 /\ last' = Last(req[r].kind, r, <<req[r].session_id>>,
                                 registry[req[r].session_id],
                                 Outcome(None, checked, <<>>))
    /\ UNCHANGED <<dev, registry, dl, open_sessions, logout_count,
                   next_handle, open_transfers, stop_count, next_transfer,
                   logged_in, poll, INIT_ONCE, init_caller, init_count>>

\* the native call of get_channels returns and the handler finishes; the
\* response keeps number, kind, enable flag and IPv4 text of each channel
WebGetChannels(r) ==
    /\ req[r].pc = "calling"
    /\ req[r].kind = "get_channels"
    /\ LET device == Unwrap(registry[req[r].session_id])
       IN  \E res \in NativeBool :
           \E code \in ErrCodesIf(get_ip_channel_config(device, res, 0, NoConfig, 0)) :
           \E dw \in IF code = 0 THEN {0} ELSE DwReturned :
           \E k \in IF code = 0 THEN CfgKinds ELSE {0} :
            LET o == get_channels(device, res, dw, Config[k], code, TRUE)
            IN  /\ Native(o.calls)
                /\ last' = Last("get_channels", r,
                                IF o.ret.kind = "ok" THEN <<k, TRUE>> ELSE <<dw>>,
                                device, o)
    /\ req' = [req EXCEPT ![r] = NoRequest]
    /\ mutex' = None
    /\ UNCHANGED <<dev, registry, dl, logged_in, poll, INIT_ONCE,
                   init_caller, init_count>>

\* the native call of capture_image returns and the handler finishes; the
\* file name is made of the channel and the time and holds no NUL
WebCaptureImage(r) ==
    /\ req[r].pc = "calling"
    /\ req[r].kind = "capture_image"
    /\ LET device == Unwrap(registry[req[r].session_id])
       IN  \E channel \in Channels, res \in NativeBool :
           \E code \in ErrCodesIf(capture_image(device, channel, CleanStr, res, 0, TRUE)) :
           \E exists \in IF res = 1 THEN BOOLEAN ELSE {FALSE} :
            LET o == capture_image(device, channel, CleanStr, res, code, exists)
            IN  /\ Native(o.calls)
                /\ last' = Last("capture_image", r, <<channel, CleanStr>>, device, o)
    /\ req' = [req EXCEPT ![r] = NoRequest]
    /\ mutex' = None
    /\ UNCHANGED <<dev, registry, dl, logged_in, poll, INIT_ONCE,
                   init_caller, init_count>>

\* the native open of download_recording returns and the handler finishes:
\* the HikDownload is started and handed to the spawned monitor task
WebDownloadRecording(r) ==
    /\ req[r].pc = "calling"
    /\ req[r].kind = "download_recording"
    /\ LET device == Unwrap(registry[req[r].session_id])
       IN  \E channel \in Channels, x \in DlIds, handle \in TransferResults :
           \E code \in IF handle < 0 THEN ErrCodes ELSE {0} :
           \E sres \in IF handle < 0 THEN {1} ELSE NativeBool :
           \E scode \in IF sres # 1 THEN ErrCodes ELSE {0} :
           \E dres \in IF sres # 1 THEN NativeBool ELSE {1} :
           \E dcode \in IF dres # 1 THEN ErrCodes ELSE {0} :
            LET o == download_recording(device, CleanStr, channel, handle, code,
                                        sres, scode, dres, dcode)
                made == IF IsSome(o.download)
                        THEN [status |-> "monitored"] @@ Unwrap(o.download)
                        ELSE [status |-> "dropped"] @@ Unwrap(o.dropped)
            IN  /\ IF IsSome(o.download) \/ IsSome(o.dropped)
                   THEN /\ Fresh(dl, DlIds, x)
                        /\ dl' = [dl EXCEPT ![x] =
                                    [session |-> Unwrap(device.login_hanlder)]
                                    @@ made]
                   ELSE /\ x = 1
                        /\ dl' = dl
                /\ Native(o.calls)
                /\ last' = Last("download_recording", r, <<channel, CleanStr>>,
                                device, o)
    /\ req' = [req EXCEPT ![r] = NoRequest]
    /\ mutex' = None
    /\ UNCHANGED <<dev, registry, logged_in, poll, INIT_ONCE,
                   init_caller, init_count>>

\* ------------------------------- the monitor task of download_recording
\* one turn of the loop: get_progress, then break or sleep
MonitorPollWith(x, positions) ==
    /\ dl[x].status = "monitored"
    /\ \E pos \in IfIssues(get_progress(dl[x], 0, 0),
                           "NET_DVR_GetDownloadPos", positions, 0) :
       \E code \in ErrCodesIf(get_progress(dl[x], pos, 0)) :
        LET o == get_progress(dl[x], pos, code)
        IN  /\ dl' = [dl EXCEPT ![x] =
                        [o.self EXCEPT !.status = IF monitor_continues(o.ret)
                                                  THEN "monitored"
                                                  ELSE "finished"]]
            /\ Native(o.calls)
            /\ last' = Last("monitor_poll", x, <<>>, dl[x], o)
    /\ UNCHANGED <<dev, registry, logged_in, poll, mutex, req, INIT_ONCE,
                   init_caller, init_count>>

MonitorPoll(x) == MonitorPollWith(x, PosValues)
\* a turn in which the device reports completion or an error value
TerminalPoll(x) == MonitorPollWith(x, {p \in PosValues : p < 0 \/ p >= 100})

\* the loop has been left: the task ends and drops the HikDownload it owns
MonitorExit(x) ==
    /\ dl[x].status = "finished"
    /\ \E res \in NativeBool :
       \E code \in ErrCodesIf(HikDownload_drop(dl[x], res, 0)) :
        LET o == HikDownload_drop(dl[x], res, code)
        IN  /\ dl' = [dl EXCEPT ![x] = [o.self EXCEPT !.status = "dropped"]]
            /\ Native(o.calls)
            /\ last' = Last("monitor_exit", x, <<>>, dl[x], o)
    /\ UNCHANGED <<dev, registry, logged_in, poll, mutex, req, INIT_ONCE,
                   init_caller, init_count>>

Next ==
    \/ \E d \in DevIds : New(d)
    \/ \E d \in DevIds : Login(d)
    \/ \E d \in DevIds : Logout(d)
    \/ \E d \in DevIds : GetChannels(d)
    \/ \E d \in DevIds : Capture(d)
    \/ \E d \in DevIds : GetFileByTime(d)
    \/ \E d \in DevIds : DropDevice(d)
    \/ \E x \in DlIds : Start(x)
    \/ \E x \in DlIds : GetProgress(x)
    \/ \E x \in DlIds : Stop(x)
    \/ \E x \in DlIds : DropDownload(x)
    \/ WebLogin

Spec == Init /\ [][Next]_vars

\* one direct owner driving one HikDevice: the session lifecycle
NextSession ==
    \/ \E d \in DevIds : New(d)
    \/ \E d \in DevIds : Login(d)
    \/ \E d \in DevIds : Logout(d)
    \/ \E d \in DevIds : GetChannels(d)
    \/ \E d \in DevIds : Capture(d)
    \/ \E d \in DevIds : GetFileByTime(d)
    \/ \E d \in DevIds : DropDevice(d)

SpecSession == Init /\ [][NextSession]_vars

\* the owner of a HikDownload obtained from a logged-in HikDevice
NextDownload ==
    \/ \E d \in DevIds : New(d)
    \/ \E d \in DevIds : Login(d)
    \/ \E d \in DevIds : GetFileByTime(d)
    \/ \E x \in DlIds : Start(x)
    \/ \E x \in DlIds : GetProgress(x)
    \/ \E x \in DlIds : Stop(x)
    \/ \E x \in DlIds : DropDownload(x)

SpecDownload == Init /\ [][NextDownload]_vars

\* every operation that reports a native failure to its caller
NextErrors ==
    \/ \E d \in DevIds : New(d)
    \/ \E d \in DevIds : Login(d)
    \/ \E d \in DevIds : GetChannels(d)
    \/ \E d \in DevIds : Capture(d)
    \/ \E d \in DevIds : GetFileByTime(d)
    \/ \E x \in DlIds : Start(x)
    \/ \E x \in DlIds : GetProgress(x)
    \/ \E x \in DlIds : Stop(x)
    \/ \E x \in DlIds : DropDownload(x)

SpecErrors == Init /\ [][NextErrors]_vars

\* channel resolution against every appliance
NextChannels ==
    \/ \E d \in DevIds : New(d)
    \/ \E d \in DevIds : LoginAny(d)
    \/ \E d \in DevIds : Logout(d)
    \/ \E d \in DevIds : GetChannels(d)

SpecChannels == Init /\ [][NextChannels]_vars

\* the demo server: concurrent requests and the monitor tasks they spawn
NextWeb ==
    \/ WebLogin
    \/ \E r \in ReqIds : WebLock(r)
    \/ \E r \in ReqIds : WebLookup(r)
    \/ \E r \in ReqIds : WebGetChannels(r)
    \/ \E r \in ReqIds : WebCaptureImage(r)
    \/ \E r \in ReqIds : WebDownloadRecording(r)
    \/ \E x \in DlIds : MonitorPoll(x)
    \/ \E x \in DlIds : MonitorExit(x)

SpecWeb == Init /\ [][NextWeb]_vars

\* the download-by-time workflow of the demo server
NextWorkflow ==
    \/ WebLogin
    \/ \E r \in ReqIds : WebLockDownload(r)
    \/ \E r \in ReqIds : WebLookup(r)
    \/ \E r \in ReqIds : WebDownloadRecording(r)
    \/ \E x \in DlIds : MonitorPoll(x)
    \/ \E x \in DlIds : MonitorExit(x)

\* the runtime schedules every spawned task, and the device at some point
\* reports completion or an error value
SpecWorkflowFair ==
    /\ Init /\ [][NextWorkflow]_vars
    /\ \A x \in DlIds : WF_vars(TerminalPoll(x)) /\ WF_vars(MonitorExit(x))

\* every way a HikDownload comes to its end: in the hands of a direct
\* owner, in download_recording, or in the monitor task
NextTransfers ==
    \/ \E d \in DevIds : New(d)
    \/ \E d \in DevIds : Login(d)
    \/ \E d \in DevIds : GetFileByTime(d)
    \/ \E x \in DlIds : Start(x)
    \/ \E x \in DlIds : GetProgress(x)
    \/ \E x \in DlIds : DropDownload(x)
    \/ WebLogin
    \/ \E r \in ReqIds : WebLockDownload(r)
    \/ \E r \in ReqIds : WebLookup(r)
    \/ \E r \in ReqIds : WebDownloadRecording(r)
    \/ \E x \in DlIds : MonitorPoll(x)
    \/ \E x \in DlIds : MonitorExit(x)

SpecTransfers == Init /\ [][NextTransfers]_vars

\* a HikDownload shared by its owner and a polling thread
NextShared ==
    \/ \E d \in DevIds : New(d)
    \/ \E d \in DevIds : Login(d)
    \/ \E d \in DevIds : GetFileByTime(d)
    \/ \E x \in DlIds : Start(x)
    \/ \E x \in DlIds : PollCheck(x)
    \/ \E x \in DlIds : PollQuery(x)
    \/ \E x \in DlIds : Stop(x)
    \/ \E x \in DlIds : DropDownload(x)

SpecShared == Init /\ [][NextShared]_vars

\* threads that call init(), at once or one after another
NextInit ==
    \/ \E t \in InitCallers : InitEnter(t)
    \/ \E t \in InitCallers : InitRun(t)
    \/ \E t \in InitCallers : InitWake(t)

SpecInit == Init /\ [][NextInit]_vars

\* =============================================================== claims
NoSessionError == Err("Login hanlder not found", <<>>)
HadSession == IsSome(last.pre.login_hanlder)

\* C1: on a HikDevice that holds no session handle, get_channels,
\* capture_jpeg_picture and get_file_by_time return the no-session error and
\* issue no native call.
C1_NoSessionFailsFast ==
    (last.op \in {"get_channels", "capture_jpeg_picture", "get_file_by_time"}
        /\ ~HadSession)
    => (last.ret = NoSessionError /\ last.calls = <<>>)

\* a device that was logged in and out again is asked for a capture
C1_Witness ==
    /\ last.op = "capture_jpeg_picture"
    /\ ~HadSession
    /\ logout_count[0] = 1
    /\ last.ret = NoSessionError

\* C2: after any sequence of login and logout calls the handle is present
\* exactly when the most recent successful login has not been followed by a
\* logout, the cached descriptor is present exactly when the handle is (it
\* is the descriptor of that login), and get_channels never reports
\* 'Device info not found'.
C2_HandleIffLoggedIn ==
    /\ \A d \in DevIds :
        /\ IsSome(dev[d].login_hanlder) <=> IsSome(logged_in[d])
        /\ IsSome(dev[d].device_info) <=> IsSome(dev[d].login_hanlder)
        /\ dev[d].device_info = logged_in[d]
    /\ last.op = "get_channels" => last.ret.msg # "Device info not found"

\* a second successful login after a logout
C2_Witness ==
    /\ last.op = "login"
    /\ last.ret.kind = "ok"
    /\ logout_count[0] = 1
    /\ IsSome(dev[last.obj].login_hanlder)

\* C3: discarding a HikDevice that holds a session handle triggers a native
\* logout for that handle.
C3_DropLogsOut ==
    \A d \in DevIds :
        (dev[d].status = "dropped" /\ IsSome(dev[d].login_hanlder))
        => Unwrap(dev[d].login_hanlder) \notin open_sessions

\* the handle h is the value of some HikDevice's login_hanlder field
HeldSomewhere(h) ==
    \/ \E d \in DevIds : dev[d].login_hanlder = Some(h)
    \/ \E k \in SessionIds :
        IsSome(registry[k]) /\ Unwrap(registry[k]).login_hanlder = Some(h)

\* C4: a handle returned by a successful native login is passed to native
\* logout before its holder stops holding it, also when a login overwrites
\* the handle of a logged-in HikDevice and when the demo server replaces a
\* registry entry.
C4_ReleasedBeforeLost ==
    [][\A h \in Handles :
        (HeldSomewhere(h) /\ ~HeldSomewhere(h)') => h \notin open_sessions']_vars

\* C5: every logout call returns success and leaves no handle and no
\* descriptor; it passes the held handle to native logout exactly once and
\* issues no native call when no handle is held; no handle is ever passed
\* to native logout twice.
C5_LogoutIdempotent ==
    /\ last.op = "logout" =>
        /\ last.ret = Ok(Unit)
        /\ dev[last.obj].login_hanlder = None
        /\ dev[last.obj].device_info = None
        /\ IF HadSession
           THEN /\ Len(last.calls) = 1
                /\ last.calls[1].fn = "NET_DVR_Logout_V30"
                /\ last.calls[1].arg = Unwrap(last.pre.login_hanlder)
           ELSE last.calls = <<>>
    /\ \A h \in Handles : logout_count[h] <= 1

\* a logout call on a device that an earlier logout already released
C5_Witness ==
    /\ last.op = "logout"
    /\ ~HadSession
    /\ logout_count[0] = 1
    /\ last.calls = <<>>

\* the native call c signalled failure to the wrapper
SignalsFailure(c) ==
    \/ c.fn \in {"NET_DVR_Login_V30", "NET_DVR_GetFileByTime_V40"} /\ c.res < 0
    \/ c.fn \in {"NET_DVR_GetDVRConfig", "NET_DVR_CaptureJPEGPicture",
                 "NET_DVR_PlayBackControl_V40", "NET_DVR_StopGetFile"} /\ c.res # 1
    \/ c.fn = "NET_DVR_GetDownloadPos" /\ c.res = -1

\* C6: when a native call of login, the config query, capture,
\* open-file-by-time, download start, download stop or a progress query
\* returning -1 signals failure, get_last_error_code is the very next native
\* call, it is called exactly once, and the error returned carries its value.
C6_LastErrorQueriedOnce ==
    \A i \in 1..Len(last.calls) :
        SignalsFailure(last.calls[i]) =>
            /\ i < Len(last.calls)
            /\ last.calls[i + 1].fn = "NET_DVR_GetLastError"
            /\ Cardinality({j \in 1..Len(last.calls) :
                    last.calls[j].fn = "NET_DVR_GetLastError"}) = 1
            /\ last.ret.kind = "err"
            /\ Len(last.ret.codes) >= 1
            /\ last.ret.codes[1] = last.calls[i + 1].res

\* a failed stop() whose error carries the code 7 the SDK reported
C6_Witness ==
    /\ last.op = "stop"
    /\ last.calls = <<Call("NET_DVR_StopGetFile", 0, 0),
                      Call("NET_DVR_GetLastError", NoArg, 7)>>
    /\ last.ret = Err("Stop download failed: error code", <<7>>)

\* C7: login with a host, username or password that contains a NUL byte
\* returns an error value, issues no native login call and leaves the
\* session state unchanged.
C7_NulRejectedWithError ==
    (last.op = "login" /\ \E i \in 1..3 : HasNul(last.args[i]))
    => /\ last.ret.kind = "err"
       /\ last.calls = <<>>
       /\ dev[last.obj] = last.pre

\* the list the claim describes for the descriptor d
ExpectedChannel(d, i) ==
    IF i <= d.byChanNum
    THEN [variant |-> "Logic", index |-> i - 1,
          chan_num |-> d.byStartChan + (i - 1)]
    ELSE [variant |-> "IP", index |-> i - d.byChanNum - 1,
          chan_num |-> d.byStartDChan + (i - d.byChanNum - 1)]
ConfigFetched == last.calls = <<Call("NET_DVR_GetDVRConfig",
                                     Unwrap(last.pre.login_hanlder), 1)>>

\* C8: after a successful login and a successful config fetch, get_channels
\* returns analogChannelCount Logic channels followed by
\* lowIPCount + highDigitalCount*256 IP channels, with indices 0..count-1
\* and channel numbers start + index.
C8_ChannelList ==
    (last.op = "get_channels" /\ HadSession /\ ConfigFetched) =>
        LET d == Unwrap(last.pre.device_info)
            n == d.byChanNum + d.byIPChanNum + d.byHighDChanNum * 256
        IN  /\ last.ret.kind = "ok"
            /\ Len(last.ret.val) = n
            /\ \A i \in 1..n :
                LET c == last.ret.val[i]
                IN  [variant |-> c.variant, index |-> c.index,
                     chan_num |-> c.chan_num] = ExpectedChannel(d, i)

\* C9: get_progress on a download whose started flag is false returns the
\* not-started error and issues no native call; the native progress query
\* is issued only by get_progress on a download whose flag is true.
C9_ProgressOnlyWhenStarted ==
    /\ (last.op = "get_progress" /\ ~last.pre.is_start)
        => (last.ret = Err("Download not started", <<>>) /\ last.calls = <<>>)
    /\ Issues(last, "NET_DVR_GetDownloadPos")
        => (last.op = "get_progress" /\ last.pre.is_start)

\* get_progress on a download that was stopped
C9_Witness ==
    /\ last.op = "get_progress"
    /\ ~last.pre.is_start
    /\ stop_count[0] >= 1
    /\ last.ret.msg = "Download not started"

\* C10: in state Started, get_progress returns Ok(p) for 0 <= p <= 100, the
\* native error with the last-error code for p = -1, the network error
\* without a last-error query for p = 200, the generic failure for any
\* other value, and never a success outside 0..100.
C10_ProgressClassified ==
    (last.op = "get_progress" /\ last.pre.is_start) =>
        LET p == last.calls[1].res
        IN  /\ last.calls[1] = Call("NET_DVR_GetDownloadPos", last.pre.handle, p)
            /\ (p \in 0..100) => (last.ret = Ok(p) /\ Len(last.calls) = 1)
            /\ (p = -1) =>
                /\ Len(last.calls) = 2
                /\ last.calls[2].fn = "NET_DVR_GetLastError"
                /\ last.ret = Err("Get download progress failed: error code",
                                  <<last.calls[2].res>>)
            /\ (p = 200) =>
                (last.ret = Err("Get download network error", <<>>)
                 /\ Len(last.calls) = 1)
            /\ (p \notin (0..100) \cup {-1, 200}) =>
                (last.ret = Err("Get download progress failed", <<>>)
                 /\ Len(last.calls) = 1)
            /\ last.ret.kind = "ok" => last.ret.val \in 0..100

\* the SDK reports 101 to a started download
C10_Witness ==
    /\ last.op = "get_progress"
    /\ last.pre.is_start
    /\ last.calls = <<Call("NET_DVR_GetDownloadPos", 0, 101)>>
    /\ last.ret = Err("Get download progress failed", <<>>)

\* C11: stop() may be called any number of times and from any state; it
\* never aborts, and after every call the started flag is false, also when
\* the native stop reports failure and stop() returns that error.
C11_StopAlwaysClears ==
    last.op = "stop" =>
        /\ last.ret.kind \in {"ok", "err"}
        /\ ~dl[last.obj].is_start
        /\ last.calls[1] = Call("NET_DVR_StopGetFile", last.pre.handle,
                                last.calls[1].res)
        /\ (last.calls[1].res # 1) => (last.ret.kind = "err")

\* a second stop() on a started download's handle fails natively
C11_Witness ==
    /\ last.op = "stop"
    /\ stop_count[0] = 2
    /\ last.ret.kind = "err"
    /\ ~dl[last.obj].is_start

\* C12: once stop() has been called on a Download Session, no later
\* operation issues the native play-start command on its transfer handle or
\* makes the session Started again.
C12_StoppedIsTerminal ==
    \A x \in DlIds :
        (dl[x].status # "unborn" /\ stop_count[dl[x].handle] >= 1) =>
            /\ ~dl[x].is_start
            /\ ~(last.op = "start" /\ last.obj = x
                 /\ Issues(last, "NET_DVR_PlayBackControl_V40"))

\* C13: start() on a started session returns success without a native
\* command; start() whose native play-start does not signal success returns
\* the error and leaves the flag false; the flag becomes true only by a
\* start() whose native play-start signalled success.
C13_StartTransitions ==
    [][/\ last'.op = "start" =>
            LET x == last'.obj
            IN  IF dl[x].is_start
                THEN /\ last'.ret = Ok(Unit)
                     /\ last'.calls = <<>>
                     /\ dl'[x].is_start
                ELSE /\ Len(last'.calls) >= 1
                     /\ last'.calls[1].fn = "NET_DVR_PlayBackControl_V40"
                     /\ last'.calls[1].arg = dl[x].handle
                     /\ IF last'.calls[1].res = 1
                        THEN last'.ret = Ok(Unit) /\ dl'[x].is_start
                        ELSE last'.ret.kind = "err" /\ ~dl'[x].is_start
       /\ \A x \in DlIds :
            (~dl[x].is_start /\ dl'[x].is_start) =>
                /\ last'.op = "start"
                /\ last'.obj = x
                /\ last'.calls = <<Call("NET_DVR_PlayBackControl_V40",
                                        dl[x].handle, 1)>>]_vars

\* start() on a session that is already started
C13_Witness ==
    /\ last.op = "start"
    /\ last.pre.is_start
    /\ last.calls = <<>>
    /\ dl[last.obj].is_start

\* C20: when the native call of an operation signals failure, the operation
\* returns one error and no value: get_channels returns no channel list
\* when the config query fails (the error carries the last-error code and
\* the reported byte count), capture_jpeg_picture returns an error, and
\* get_file_by_time creates no Download Session for a negative handle.
C20_FailureGivesOnlyError ==
    /\ (last.op \in {"get_channels", "capture_jpeg_picture", "get_file_by_time"}
        /\ Len(last.calls) >= 1 /\ SignalsFailure(last.calls[1])) =>
            /\ Len(last.calls) = 2
            /\ last.ret =
                Err(CASE last.op = "get_channels" ->
                            "Get IP channel config failed: error code, dwReturned"
                      [] last.op = "capture_jpeg_picture" ->
                            "Capture JPEG picture failed: error code"
                      [] last.op = "get_file_by_time" ->
                            "Get file by time failed: error code",
                    IF last.op = "get_channels"
                    THEN <<last.calls[2].res, last.args[1]>>
                    ELSE <<last.calls[2].res>>)
    /\ Cardinality({x \in DlIds : dl[x].status # "unborn"}) = next_transfer

\* a failed config query that reported 8 bytes and last-error code 7
C20_Witness ==
    /\ last.op = "get_channels"
    /\ last.calls = <<Call("NET_DVR_GetDVRConfig", 0, 0),
                      Call("NET_DVR_GetLastError", NoArg, 7)>>
    /\ last.ret.codes = <<7, 8>>
    /\ last.ret.val = <<>>

\* C14: once a HikDownload returned by get_file_by_time has been discarded,
\* the native stop-transfer command has been issued for its transfer handle
\* at least once, whether it was never started, its start failed, a poll
\* failed, it completed at 100 or it was dropped while started; a failure
\* of that stop is swallowed (the handler whose start failed reports the
\* start error, and the object is gone all the same).
C14_DiscardedIsStopped ==
    /\ \A x \in DlIds : dl[x].status = "dropped" =>
            /\ stop_count[dl[x].handle] >= 1
            /\ dl[x].handle \notin open_transfers
    /\ last.op \in {"drop_download", "monitor_exit"} =>
            /\ dl[last.obj].status = "dropped"
            /\ last.calls[1].fn = "NET_DVR_StopGetFile"
            /\ last.calls[1].arg = last.pre.handle
    /\ (last.op = "download_recording"
        /\ Issues(last, "NET_DVR_PlayBackControl_V40")
        /\ last.ret.kind = "err") =>
            /\ last.ret.msg = "Start download failed: error code"
            /\ last.ret.codes = <<last.calls[3].res>>
            /\ last.calls[4].fn = "NET_DVR_StopGetFile"
            /\ last.calls[4].arg = last.calls[1].res

\* download_recording's start failed and so did the stop of the teardown
C14_Witness ==
    /\ last.op = "download_recording"
    /\ Len(last.calls) = 5
    /\ last.calls[4] = Call("NET_DVR_StopGetFile", 0, 0)
    /\ dl[1].status = "dropped"
    /\ stop_count[0] = 1

\* C16: the download monitor polls get_progress again after every poll that
\* returned a value below 100, and issues no further poll once a poll has
\* returned 100 or an error.
PollStep ==
    /\ last'.op = "monitor_poll"
    /\ last.op # "monitor_poll" \/ last.obj # last'.obj \/ last.calls # last'.calls
C16_MonitorPollsUntilDone ==
    [][ /\ PollStep =>
            /\ dl[last'.obj].status = "monitored"
            /\ last'.calls[1] = Call("NET_DVR_GetDownloadPos",
                                     dl[last'.obj].handle, last'.calls[1].res)
            /\ (dl'[last'.obj].status = "monitored")
                    <=> (last'.ret.kind = "ok" /\ last'.ret.val < 100)
        /\ \A x \in DlIds : dl[x].status = "monitored" => ENABLED MonitorPoll(x)
        /\ \A x \in DlIds : dl[x].status \in {"finished", "dropped"} =>
            /\ dl'[x].status # "monitored"
            /\ ~ENABLED MonitorPoll(x)
            /\ ~(PollStep /\ last'.obj = x)
      ]_vars

\* the poll that reported 100 was the monitor's last one
C16_Witness ==
    /\ last.op = "monitor_poll"
    /\ last.ret = Ok(100)
    /\ dl[last.obj].status = "finished"

\* C17: in the download-by-time workflow, with the monitor task scheduled
\* fairly and a device that eventually reports 100 or an error value, the
\* monitor terminates and the HikDownload ends stopped with its transfer
\* handle released; as long as the device reports values below 100 the
\* session stays started, its handle stays open, and nothing but a poll
\* that returned 100 or an error takes the monitor out of its loop.
C17_MonitorTerminates ==
    /\ [](\A x \in DlIds : dl[x].status = "monitored" =>
            dl[x].is_start /\ dl[x].handle \in open_transfers)
    /\ [][\A x \in DlIds :
            (dl[x].status = "monitored" /\ dl'[x].status # "monitored") =>
                /\ last'.op = "monitor_poll"
                /\ last'.obj = x
                /\ ~(last'.ret.kind = "ok" /\ last'.ret.val < 100)]_vars
    /\ \A x \in DlIds :
        (dl[x].status = "monitored")
            ~> (/\ dl[x].status = "dropped"
                /\ ~dl[x].is_start
                /\ dl[x].handle \notin open_transfers)

\* the monitor task has ended and its transfer handle is released
C17_Witness ==
    /\ last.op = "monitor_exit"
    /\ last.pre.is_start
    /\ dl[last.obj].status = "dropped"
    /\ ~dl[last.obj].is_start
    /\ dl[last.obj].handle \notin open_transfers

\* C18: in the demo server no two native calls on the same session handle
\* (config query, capture, open-file-by-time) are in flight at the same
\* time: a handler is inside such a call only while it holds the lock of
\* the registry.
InFlight == {r \in ReqIds : req[r].pc = "calling"}
C18_SessionCallsSerialized ==
    /\ \A r \in InFlight :
        /\ mutex = Some(r)
        /\ Unwrap(req[r].in_flight)[1] \in
                {"NET_DVR_GetDVRConfig", "NET_DVR_CaptureJPEGPicture",
                 "NET_DVR_GetFileByTime_V40"}
        /\ Unwrap(req[r].in_flight)[2] \in open_sessions
    /\ \A r1 \in InFlight, r2 \in InFlight :
        r1 # r2 => Unwrap(req[r1].in_flight)[2] # Unwrap(req[r2].in_flight)[2]
    /\ (last.op \in Handlers /\ last.calls # <<>>) =>
        /\ last.calls[1].arg = Unwrap(last.pre.login_hanlder)
        /\ \A r \in InFlight : Unwrap(req[r].in_flight)[2] # last.calls[1].arg

\* one request is inside the open-file-by-time call on session handle 0
\* right after another request's capture on that handle has returned
C18_Witness ==
    /\ req[1].pc = "calling"
    /\ req[1].in_flight = Some(<<"NET_DVR_GetFileByTime_V40", 0>>)
    /\ mutex = Some(1)
    /\ req[2].pc = "idle"

\* C15: with a progress poller running beside the owner's stop() of the
\* same HikDownload, no native progress query is issued on a transfer
\* handle for which the native stop-transfer command has been issued
\* (looked at on a HikDownload that stop() left stopped), and no
\* HikDownload is torn down while a poller is inside get_progress.
C15_NoQueryAfterStop ==
    /\ ~(/\ last.op = "get_progress"
         /\ Issues(last, "NET_DVR_GetDownloadPos")
         /\ ~last.pre.is_start
         /\ stop_count[last.pre.handle] >= 1)
    /\ \A x \in DlIds : dl[x].status = "dropped" => poll[x] = None

\* C19: however many init() calls are made, one after another or at the
\* same time, NET_DVR_Init is called at most once in the process and every
\* init() call returns the outcome of that one call: all Ok, or all the
\* error with its code; a failed initialisation is not tried again.
C19_InitOnce ==
    /\ init_count <= 1
    /\ IsSome(INIT_ONCE) <=> init_count = 1
    /\ \A t \in InitCallers : IsSome(init_caller[t].ret) =>
            /\ IsSome(INIT_ONCE)
            /\ Unwrap(init_caller[t].ret) = init_result(Unwrap(INIT_ONCE))
    /\ \A t \in InitCallers, u \in InitCallers :
            (IsSome(init_caller[t].ret) /\ IsSome(init_caller[u].ret))
                => init_caller[t].ret = init_caller[u].ret

\* NET_DVR_Init failed once; a thread that waited and a thread on its
\* second call both got that failure
C19_Witness ==
    /\ init_count = 1
    /\ INIT_ONCE = Some([kind |-> "err", code |-> 0])
    /\ init_caller[1].calls = 2
    /\ init_caller[1].ret = Some(Err("Init failed: error code", <<0>>))
    /\ init_caller[2].calls = 1
    /\ init_caller[2].ret = init_caller[1].ret

\* C21: for every descriptor the resolver's range arithmetic neither wraps
\* nor aborts: HikDeviceInfo::get_channels returns, and the number of
\* channels it emits is byChanNum + byIPChanNum + byHighDChanNum * 256.
C21_RangeArithmeticExact ==
    (last.op = "get_channels" /\ HadSession /\ ConfigFetched) =>
        LET d == Unwrap(last.pre.device_info)
            r == HikDeviceInfo_get_channels(d, last.args[2])
        IN  /\ d.byIPChanNum + d.byHighDChanNum * 256 < U16
            /\ r.kind = "ok"
            /\ Len(r.val) = d.byChanNum + d.byIPChanNum + d.byHighDChanNum * 256

\* C22: in the list get_channels returns, an IP channel carries the stream
\* type and the IPv4 and IPv6 text of the configuration entry at its index,
\* and a sub-channel number exactly when that entry's stream type is 0; a
\* Logic channel carries the enabled flag of the analog array at its index
\* and none of the IP and stream fields.
C22_ChannelFieldsJoined ==
    (last.op = "get_channels" /\ HadSession /\ ConfigFetched
     /\ last.ret.kind = "ok") =>
        LET cfg == Config[last.args[1]]
        IN  \A i \in 1..Len(last.ret.val) :
            LET c == last.ret.val[i]
                entry == cfg.struIPDevInfo[c.index + 1]
                mode == cfg.struStreamMode[c.index + 1]
            IN  IF c.variant = "IP"
                THEN /\ c.get_stream_type = Some(mode.byGetStreamType)
                     /\ c.ipv4_address = Some(DecodeField(entry.sIpV4))
                     /\ c.ipv6_address = Some(DecodeField(entry.byIPv6))
                     /\ IsSome(c.stream_channel) <=> (mode.byGetStreamType = 0)
                     /\ IsSome(c.stream_channel) =>
                            Unwrap(c.stream_channel) = mode.uGetStream.byChannel
                ELSE /\ c.enable = (cfg.byAnalogChanEnable[c.index + 1] = 1)
                     /\ c.get_stream_type = None
                     /\ c.stream_channel = None
                     /\ c.ipv4_address = None
                     /\ c.ipv6_address = None

\* four Logic and eight IP channels, some with stream type 0 and some not
C22_Witness ==
    /\ last.op = "get_channels"
    /\ last.ret.kind = "ok"
    /\ Len(last.ret.val) = 12
    /\ last.ret.val[1].variant = "Logic"
    /\ \E i \in 5..12 : IsSome(last.ret.val[i].stream_channel)
    /\ \E i \in 5..12 : /\ ~IsSome(last.ret.val[i].stream_channel)
                        /\ IsSome(last.ret.val[i].get_stream_type)

\* C23: a login whose native call returns a negative result leaves the
\* HikDevice's session handle and cached descriptor as they were: a device
\* that was logged in keeps both, a device that was not stays without.
C23_FailedLoginKeepsState ==
    (last.op = "login" /\ last.calls # <<>> /\ last.calls[1].res < 0) =>
        /\ last.ret.kind = "err"
        /\ dev[last.obj].login_hanlder = last.pre.login_hanlder
        /\ dev[last.obj].device_info = last.pre.device_info
        /\ IsSome(last.pre.login_hanlder) =>
                Unwrap(last.pre.login_hanlder) \in open_sessions

\* a second login on a logged-in device failed
C23_Witness ==
    /\ last.op = "login"
    /\ last.calls # <<>>
    /\ last.calls[1].res < 0
    /\ last.pre.login_hanlder = Some(0)
    /\ dev[last.obj].login_hanlder = Some(0)
    /\ IsSome(dev[last.obj].device_info)

\* C24: for each transfer handle the native stop-transfer command is
\* issued at most once over the life of its HikDownload: a stop() followed
\* by another stop() or by teardown does not issue it again.
C24_StopIssuedOnce ==
    \A t \in Transfers : stop_count[t] <= 1

\* C25: get_progress never changes the HikDownload: whatever position the
\* device reports (100 and the error values included), the started flag
\* and the transfer handle are the same after the call, and the flag goes
\* from true to false only in stop() or in teardown.
C25_ProgressLeavesSessionAlone ==
    [][ /\ last'.op = "get_progress" =>
            /\ last'.pre = dl[last'.obj]
            /\ dl'[last'.obj].is_start = dl[last'.obj].is_start
            /\ dl'[last'.obj].handle = dl[last'.obj].handle
            /\ dl'[last'.obj].status = dl[last'.obj].status
        /\ \A x \in DlIds : (dl[x].is_start /\ ~dl'[x].is_start) =>
            /\ last'.op \in {"stop", "drop_download"}
            /\ last'.obj = x
      ]_vars

\* the device reported 100 and the download is still started
C25_Witness ==
    /\ last.op = "get_progress"
    /\ last.ret = Ok(100)
    /\ last.pre.is_start
    /\ dl[last.obj].is_start
    /\ dl[last.obj].handle \in open_transfers

\* C26: no native call (play-start, progress query, stop-transfer) is
\* issued on the transfer handle of a HikDownload after the session handle
\* that opened it has been passed to the native logout.
C26_NoTransferCallAfterLogout ==
    (last.op \in {"start", "get_progress", "stop", "drop_download"}
     /\ last.calls # <<>>) =>
        logout_count[last.pre.session] = 0

====
